---- MODULE Spec2Model ----
(***************************************************************************)
(* Stream Deck Spotify plugin: the widget registries (buttons, dials), the *)
(* global update timer of SpotifyBaseAction, the dial image pipeline of    *)
(* SpotifyPlayerDial, and the retrying downloadImage of the earlier dial.  *)
(* One event loop: every action below is one macrotask (a host event, a    *)
(* timer callback, or the completion of a network request) together with   *)
(* the microtasks it triggers.                                             *)
(***************************************************************************)
EXTENDS Integers, Sequences, FiniteSets, TLC

\* ---------------------------------------------------------------- bounds
MaxStarts == 2      \* startGlobalUpdate calls suspended at the same time
MaxTicks == 2       \* timer callbacks suspended at the same time
MaxFetches == 3     \* dial image requests in flight at the same time
MaxTimers == 2      \* intervals active at the same time
MaxRetries == 3     \* largest retries argument given to downloadImage
MaxPosts == 2       \* sendAction calls in flight at the same time
MaxRefreshes == 1   \* updateAllButtonStates calls of handlers in flight at the same time
MaxBackendStarts == 2 \* startPythonBackend calls suspended at the same time
MaxProcs == 2       \* backend processes spawned in one run
MaxIntervals == 3   \* intervals a dial variant creates in one run
MaxAppearing == 2   \* onWillAppear calls of a dial variant suspended at the same time

DefaultRetries == 3 \* downloadImage(url, retries = 3)
DefaultPeriod == 5000 \* refreshRate * 1000 || 5000

\* ------------------------------------------------------------- universes
Buttons == {"b1", "b2", "b3", "b4", "b5", "b6", "b7"}
Dials == {"d1", "d2"}
Kinds == {"playpause", "like", "playlist", "shuffle", "mute", "volumeset"}
Urls == {"", "a", "b"}
Outcomes == {"ok", "status", "error", "timeout"}   \* of an image request
StatesOutcomes == {"ok", "status", "error"}        \* of the states fetch
PostOutcomes == {"ok", "status", "error"}          \* of the POST of sendAction
UpCommands == {"", "volumeup"}                     \* settings.dialActionUp
DownCommands == {"", "volumedown"}                 \* settings.dialActionDown
TapCommands == {"", "playpause"}                   \* settings.dialActionTap
ClickCommands == {"", "volumemute"}                \* settings.dialActionClick
Ticks == {0 - 2, 0, 3}                             \* payload.ticks of a rotation
PlaylistUris == {"", "spotify:playlist:1"}          \* settings.playlistUri
Rates == {0, 2, 3}                                 \* settings.global.refreshRate (0: unset)
Undefined == 0 - 1001                              \* stands for a refreshRate that is undefined
Text == 0 - 1002                                   \* stands for a refreshRate that is text, not a number
NaN == 0 - 1003                                    \* stands for NaN
StoredRates == {0 - 1, 0, 2, Undefined, Text}      \* what a user or the host can store
DefaultVolume == 50                                \* settings.volume || 50
StoredVolumes == {Undefined, 0, 30, 100}           \* settings.volume of the volume-set key

\* The action class (a SingletonAction) the host routes a key widget to.
kindOf(b) ==
    CASE b = "b3" -> "like"
      [] b = "b4" -> "playlist"
      [] b = "b5" -> "shuffle"
      [] b = "b6" -> "mute"
      [] b = "b7" -> "volumeset"
      [] OTHER -> "playpause"

NoTimer == 0
NoProcess == 0
NoSettings == <<>>                                 \* lastSettings = null
NoFile == <<>>                                     \* no .env written yet
ClientIds == {"", "id"}                            \* settings.global.clientId
ClientSecrets == {"", "secret"}                    \* settings.global.clientSecret
KeyOrders == {"idFirst", "secretFirst"}            \* key order of a settings.global object
NoAction == "none"
ErrorImage == "imgs/action/dial-error.png"
NoImage == "unset"

VARIABLES
    visible,         \* widgets the host currently shows
    instances,       \* SpotifyBaseAction.instances
    action,          \* this.action of each button singleton
    dialActions,     \* SpotifyPlayerDial.dialActions, in insertion order
    updateInterval,  \* SpotifyBaseAction.updateInterval
    timers,          \* intervals the runtime keeps firing
    starts,          \* suspended startGlobalUpdate calls
    tickFetches,     \* suspended timer callbacks (awaiting the states fetch)
    imgFetches,      \* dial image requests in flight, per dial and url
    shown,           \* last image given to setFeedback, per dial
    image,           \* last image given to setImage, per button
    bridge,          \* the states the bridge answers with
    refreshRate,     \* refreshRate of the stored global settings
    period,          \* milliseconds of each active interval (0: none)
    posts,           \* sendAction calls in flight, with their continuation
    unhandled,       \* a rejection escaped its handler
    refreshFetches,  \* states fetches in flight that a handler's chain sent
    playlistUri,     \* this.playlistUri of the start-playlist singleton
    volume,          \* this.volume of the volume-set singleton
    volumeSetting,   \* settings.volume the host keeps for the volume-set key
    credentials,     \* clientId and clientSecret of the stored global settings
    lastSettings,    \* lastSettings of plugin.ts, in a sequence (empty: null)
    pythonProcess,   \* pythonProcess of plugin.ts
    procs,           \* what became of each backend process spawned
    backendStarts,   \* startPythonBackend calls suspended at their await
    envFile,         \* content of the backend's .env file, in a sequence
    ui,              \* one updateImage call of the registry dial, per dial
    pdVisible,       \* dials shown, for the dial variants that keep their own intervals
    pdUrl,           \* settings.imgUrl of each such dial
    pdTimers,        \* intervals of those variants the runtime keeps firing
    pdAppearing,     \* their onWillAppear calls suspended at updateImage
    refreshIntervals, \* this.refreshIntervals of those variants
    dl               \* one updateImage/downloadImage call of the retrying dial

vars == <<visible, instances, action, dialActions, updateInterval, timers,
          starts, tickFetches, imgFetches, shown, image, bridge,
          refreshRate, period, posts, unhandled, refreshFetches, playlistUri, volume, volumeSetting,
          credentials, lastSettings, pythonProcess, procs, backendStarts, envFile,
          ui, pdVisible, pdUrl, pdTimers, pdAppearing, refreshIntervals, dl>>

\* Single calls and widget variants that are followed on their own.
dialVariantVars == <<pdVisible, pdUrl, pdTimers, pdAppearing, refreshIntervals>>

variantVars == <<ui, dialVariantVars>>

\* The backend process and what startPythonBackend reads and writes.
backendVars == <<credentials, lastSettings, pythonProcess, procs, backendStarts, envFile>>

\* State of the plugin that the scheduler and the widgets' events leave alone.
pluginVars == <<playlistUri, volume, volumeSetting, backendVars, variantVars>>

schedVars == <<visible, instances, action, dialActions, updateInterval, timers,
               starts, tickFetches, imgFetches, shown, image, bridge,
               refreshRate, period, posts, unhandled, refreshFetches, playlistUri, volume, volumeSetting,
               backendVars>>

\* ------------------------------------------------------------ data model
States == [is_playing : BOOLEAN, is_liked : BOOLEAN,
           is_shuffle : BOOLEAN, is_muted : BOOLEAN]

FetchKeys == Dials \X (Urls \ {""})

Base64Image(u) == "data:image/jpeg;base64," \o u

\* The play/pause key drawn with the icon of the player's state instead of
\* the icon of what a press would do.
Presentation_PlayWhilePlaying(k, s) ==
    CASE k = "playpause" -> IF s.is_playing THEN "imgs/action/play.png"
                                            ELSE "imgs/action/pause.png"
      [] k = "like" -> IF s.is_liked THEN "imgs/action/like_filled.png"
                                     ELSE "imgs/action/like.png"
      [] k = "shuffle" -> IF s.is_shuffle THEN "imgs/action/shuffle_on.png"
                                          ELSE "imgs/action/shuffle.png"
      [] k = "mute" -> IF s.is_muted THEN "imgs/action/mute.png"
                                     ELSE "imgs/action/volume.png"
      [] k = "volumeset" -> "imgs/action/volume.png"
      [] k = "next" -> "imgs/action/next.png"
      [] k = "playlist" -> "imgs/action/playlist.png"
      [] OTHER -> "imgs/action/previous.png"

\* updateImage of the button classes.
Presentation(k, s) ==
    CASE k = "playpause" -> IF s.is_playing THEN "imgs/action/pause.png"
                                            ELSE "imgs/action/play.png"
      [] k = "like" -> IF s.is_liked THEN "imgs/action/like_filled.png"
                                     ELSE "imgs/action/like.png"
      [] k = "shuffle" -> IF s.is_shuffle THEN "imgs/action/shuffle_on.png"
                                          ELSE "imgs/action/shuffle.png"
      [] k = "mute" -> IF s.is_muted THEN "imgs/action/mute.png"
                                     ELSE "imgs/action/volume.png"
      [] k = "volumeset" -> "imgs/action/volume.png"
      [] k = "next" -> "imgs/action/next.png"
      [] k = "playlist" -> "imgs/action/playlist.png"
      [] OTHER -> "imgs/action/previous.png"

\* Array.find / indexOf on instances.
IndexOf(s, k) ==
    IF \E i \in 1..Len(s) : s[i] = k
    THEN CHOOSE i \in 1..Len(s) : s[i] = k /\ \A j \in 1..(i - 1) : s[j] # k
    ELSE 0

\* Array.splice(index, 1).
Splice(s, i) == [j \in 1..(Len(s) - 1) |-> IF j < i THEN s[j] ELSE s[j + 1]]

\* Map.has / Map.get / Map.set / Map.delete on dialActions.
MapHas(m, id) == \E i \in 1..Len(m) : m[i].id = id

MapGet(m, id) == m[CHOOSE i \in 1..Len(m) : m[i].id = id].url

\* Map.set that never finds the key.
MapSet_AlwaysAppend(m, id, u) == Append(m, [id |-> id, url |-> u])

MapSet(m, id, u) ==
    IF MapHas(m, id)
    THEN [i \in 1..Len(m) |-> IF m[i].id = id THEN [id |-> id, url |-> u] ELSE m[i]]
    ELSE Append(m, [id |-> id, url |-> u])

\* A delete that leaves the entry in the map.
MapDelete_KeepsEntry(m, id) == m

MapDelete(m, id) == SelectSeq(m, LAMBDA e : e.id # id)

RECURSIVE SumOver(_, _)
SumOver(f, S) ==
    IF S = {} THEN 0
    ELSE LET x == CHOOSE y \in S : TRUE IN f[x] + SumOver(f, S \ {x})

InFlight(f) == SumOver(f, FetchKeys)

\* ------------------------------------------------- dial image pipeline
\* SpotifyPlayerDial.updateImage up to its suspension: the request is sent;
\* an empty url makes protocol.get throw, which the catch turns into the
\* error image at once.  d is the display state [f: in flight, s: shown].
updateImage(d, id, u) ==
    IF u = ""
    THEN [d EXCEPT !.s[id] = ErrorImage]
    ELSE [d EXCEPT !.f[<<id, u>>] = @ + 1]

\* SpotifyPlayerDial.updateAllDials: one updateImage per entry with a url.
RECURSIVE updateAllDialsFrom(_, _, _)
updateAllDialsFrom(d, m, i) ==
    IF i > Len(m) THEN d
    ELSE updateAllDialsFrom(
            IF m[i].url # "" THEN updateImage(d, m[i].id, m[i].url) ELSE d,
            m, i + 1)

\* updateAllDials that awaits each updateImage: only the first entry's
\* fetch is started before the function suspends.
updateAllDials_AwaitEach(d, m) ==
    IF m = <<>> THEN d ELSE updateAllDialsFrom(d, <<m[1]>>, 1)

updateAllDials(d, m) == updateAllDialsFrom(d, m, 1)

Display == [f |-> imgFetches, s |-> shown]

SetDisplay(d) ==
    /\ InFlight(d.f) <= MaxFetches
    /\ imgFetches' = d.f
    /\ shown' = d.s

\* The image setFeedback receives when the request of updateImage ends.
FeedbackFor(u, o) == IF o = "ok" THEN Base64Image(u) ELSE ErrorImage

\* -------------------------------------------------- global update timer
NewStart == [pc |-> "awaitStates", refreshes |-> 0, fanouts |-> 0]

\* startGlobalUpdate without the test of updateInterval.
startGlobalUpdate_NoGuard(s) == Append(s, NewStart)

\* SpotifyBaseAction.startGlobalUpdate up to its first await.
startGlobalUpdate(s) ==
    IF updateInterval = NoTimer THEN Append(s, NewStart) ELSE s

\* SpotifyBaseAction.stopGlobalUpdate.
stopGlobalUpdate ==
    IF updateInterval # NoTimer
    THEN /\ timers' = timers \ {updateInterval}
         /\ period' = [period EXCEPT ![updateInterval] = 0]
         /\ updateInterval' = NoTimer
    ELSE UNCHANGED <<timers, period, updateInterval>>

\* Number(v) of a stored refreshRate: NaN for undefined and for text.
Number(v) == IF v \in {Undefined, Text} THEN NaN ELSE v

\* n * 1000 in floating point: NaN stays NaN.
Times1000(n) == IF n = NaN THEN NaN ELSE n * 1000

\* Number(settings.refreshRate) * 1000 || 5000: NaN and 0 are falsy.
RefreshPeriod(r) ==
    LET ms == Times1000(Number(r)) IN
    IF ms = NaN \/ ms = 0 THEN DefaultPeriod ELSE ms

\* Math.abs.
Abs(n) == IF n < 0 THEN 0 - n ELSE n

\* sendAction: how the promise settles for an outcome of its POST.  fetch
\* resolves whatever the status and response.ok is not read; only a
\* transport error is rethrown.
sendAction(o) == IF o = "error" THEN "rejected" ELSE "resolved"

\* The chain onDialRotate hangs on sendAction without its .then.
RotateChain_NoRefresh(r) == [refresh |-> "none", escaped |-> FALSE]

\* The chain onDialRotate hangs on sendAction:
\* .then(() => updateImage(ev.action, url)).catch(log).
RotateChain(r) ==
    [refresh |-> IF r = "resolved" THEN "image" ELSE "none", escaped |-> FALSE]

\* The chain onDialDown hangs on sendAction: the same shape.
ClickChain(r) ==
    [refresh |-> IF r = "resolved" THEN "image" ELSE "none", escaped |-> FALSE]

\* The chain onTouchTap hangs on sendAction:
\* .then(updateAllDials).then(updateAllButtonStates).catch(log).
TapChain(r) ==
    [refresh |-> IF r = "resolved" THEN "all" ELSE "none", escaped |-> FALSE]

\* The chain onKeyDown hangs on handleAction without its .catch.
KeyChain_NoCatch(r) ==
    [refresh |-> IF r = "resolved" THEN "all" ELSE "none", escaped |-> r = "rejected"]

\* The chain onKeyDown hangs on handleAction without its .then.
KeyChain_NoRefresh(r) == [refresh |-> "none", escaped |-> FALSE]

\* The chain onKeyDown hangs on handleAction: .catch(log).then(refresh), so
\* the refresh runs after a rejection too.
KeyChain(r) == [refresh |-> "all", escaped |-> FALSE]

Chain(src, r) ==
    CASE src = "key" -> KeyChain(r)
      [] src = "tap" -> TapChain(r)
      [] src = "click" -> ClickChain(r)
      [] OTHER -> RotateChain(r)

\* The command handleAction of a key of class k sends.
KeyCommand(k) ==
    CASE k = "like" -> "togglelike"
      [] k = "playlist" -> "startplaylist"
      [] k = "shuffle" -> "toggleshuffle"
      [] k = "mute" -> "volumemute"
      [] k = "volumeset" -> "volumeset"
      [] OTHER -> "playpause"

\* The value handleAction of a key of class k sends with its command.
KeyValue(k) == IF k = "volumeset" THEN volume ELSE Undefined

\* The Timeout object setInterval returns: one no active interval has.
NewHandle == CHOOSE h \in 1..(MaxTimers + 1) : h \notin timers /\ \A g \in 1..(h - 1) : g \in timers

\* updateAllButtonStates whose loop stops before the last registered instance.
PushStates_SkipLast(img, o) ==
    IF o = "ok"
    THEN [b \in Buttons |->
            IF \E i \in 1..(Len(instances) - 1) : action[instances[i]] = b
            THEN Presentation(kindOf(b), bridge)
            ELSE img[b]]
    ELSE img

\* updateAllButtonStates that pushes whatever the fetch returned.
PushStates_IgnoreOutcome(img, o) ==
    [b \in Buttons |->
        IF \E i \in 1..Len(instances) : action[instances[i]] = b
        THEN Presentation(kindOf(b), bridge)
        ELSE img[b]]

\* The forEach of updateAllButtonStates once the states are read.
PushStates(img, o) ==
    IF o = "ok"
    THEN [b \in Buttons |->
            IF \E i \in 1..Len(instances) : action[instances[i]] = b
            THEN Presentation(kindOf(b), bridge)
            ELSE img[b]]
    ELSE img

\* ------------------------------------------------------------------ Init
InitSched ==
    /\ visible = {}
    /\ instances = <<>>
    /\ action = [k \in Kinds |-> NoAction]
    /\ dialActions = <<>>
    /\ updateInterval = NoTimer
    /\ timers = {}
    /\ starts = <<>>
    /\ tickFetches = 0
    /\ imgFetches = [k \in FetchKeys |-> 0]
    /\ shown = [d \in Dials |-> NoImage]
    /\ image = [b \in Buttons |-> NoImage]
    /\ bridge = [is_playing |-> FALSE, is_liked |-> FALSE,
                 is_shuffle |-> FALSE, is_muted |-> FALSE]
    /\ refreshRate = 0
    /\ period = [h \in 1..MaxTimers |-> 0]
    /\ posts = <<>>
    /\ unhandled = FALSE
    /\ refreshFetches = 0
    /\ playlistUri = ""
    /\ volume = DefaultVolume
    /\ volumeSetting = Undefined
    /\ credentials = [clientId |-> "", clientSecret |-> ""]
    /\ lastSettings = NoSettings
    /\ pythonProcess = NoProcess
    /\ procs = [p \in 1..MaxProcs |-> "none"]
    /\ backendStarts = 1
    /\ envFile = NoFile

IdleDl == [phase |-> "idle", url |-> "", r0 |-> 0, retries |-> 0, attempts |-> 0,
           settled |-> "none", onlyErrors |-> TRUE, feedback |-> NoImage]

IdleCall == [phase |-> "idle", url |-> "", settled |-> "none", cause |-> "none",
             feedback |-> <<>>]

InitVariants ==
    /\ ui = [d \in Dials |-> IdleCall]
    /\ pdVisible = {}
    /\ pdUrl = [d \in Dials |-> ""]
    /\ pdTimers = {}
    /\ pdAppearing = <<>>
    /\ refreshIntervals = {}

Init == InitSched /\ InitVariants /\ dl = IdleDl

\* --------------------------------------------------------------- actions
\* SpotifyBaseAction.onWillAppear for key widget b.
ButtonOnWillAppear(b) ==
    LET k == kindOf(b) IN
    /\ visible' = visible \cup {b}
    /\ action' = [action EXCEPT ![k] = b]
    /\ IF IndexOf(instances, k) = 0
       THEN /\ instances' = Append(instances, k)
            /\ starts' = IF Len(instances') = 1
                         THEN startGlobalUpdate(starts) ELSE starts
       ELSE UNCHANGED <<instances, starts>>
    /\ Len(starts') <= MaxStarts
    /\ UNCHANGED <<dialActions, updateInterval, timers, tickFetches,
                   imgFetches, shown, image, bridge, dl>>
    /\ UNCHANGED <<refreshRate, period, posts, unhandled, refreshFetches>>
    /\ UNCHANGED pluginVars

\* SpotifyBaseAction.onWillDisappear for key widget b.
ButtonOnWillDisappear(b) ==
    LET k == kindOf(b)
        index == IndexOf(instances, k) IN
    /\ b \in visible
    /\ visible' = visible \ {b}
    /\ instances' = IF index > 0 THEN Splice(instances, index) ELSE instances
    /\ IF Len(instances') = 0
       THEN stopGlobalUpdate
       ELSE UNCHANGED <<timers, period, updateInterval>>
    /\ UNCHANGED <<action, dialActions, starts, tickFetches,
                   imgFetches, shown, image, bridge, dl>>
    /\ UNCHANGED <<refreshRate, posts, unhandled, refreshFetches>>
    /\ UNCHANGED pluginVars

\* SpotifyPlayerDial.onWillAppear for dial d with settings.imgUrl = u.
DialOnWillAppear(d, u) ==
    /\ visible' = visible \cup {d}
    /\ dialActions' = MapSet(dialActions, d, u)
    /\ starts' = startGlobalUpdate(starts)
    /\ Len(starts') <= MaxStarts
    /\ SetDisplay(updateImage(Display, d, u))
    /\ UNCHANGED <<instances, action, updateInterval, timers,
                   tickFetches, image, bridge, dl>>
    /\ UNCHANGED <<refreshRate, period, posts, unhandled, refreshFetches>>
    /\ UNCHANGED pluginVars

\* SpotifyPlayerDial.onWillDisappear for dial d.
DialOnWillDisappear(d) ==
    /\ d \in visible
    /\ visible' = visible \ {d}
    /\ dialActions' = MapDelete(dialActions, d)
    /\ UNCHANGED <<instances, action, updateInterval, timers, starts,
                   tickFetches, imgFetches, shown, image, bridge, dl>>
    /\ UNCHANGED <<refreshRate, period, posts, unhandled, refreshFetches>>
    /\ UNCHANGED pluginVars

\* onDidReceiveSettings that stores the new url and leaves the fetch to the
\* next tick.
DialOnDidReceiveSettings_NoFetch(d, u, g) ==
    /\ d \in visible
    /\ refreshRate' = g
    /\ IF MapHas(dialActions, d)
       THEN dialActions' = MapSet(dialActions, d, u)
       ELSE UNCHANGED dialActions
    /\ UNCHANGED <<visible, instances, action, updateInterval, timers,
                   starts, tickFetches, imgFetches, shown, image, bridge, dl>>
    /\ UNCHANGED <<period, posts, unhandled, refreshFetches>>
    /\ UNCHANGED pluginVars

\* onDidReceiveSettings that also re-arms the running interval with the new
\* refresh rate.
DialOnDidReceiveSettings_Reschedule(d, u, g) ==
    /\ d \in visible
    /\ refreshRate' = g
    /\ IF MapHas(dialActions, d)
       THEN /\ dialActions' = MapSet(dialActions, d, u)
            /\ SetDisplay(updateImage(Display, d, u))
       ELSE UNCHANGED <<dialActions, imgFetches, shown>>
    /\ period' = [h \in DOMAIN period |->
                    IF h \in timers THEN RefreshPeriod(g) ELSE period[h]]
    /\ UNCHANGED <<visible, instances, action, updateInterval, timers,
                   starts, tickFetches, image, bridge, dl>>
    /\ UNCHANGED <<posts, unhandled, refreshFetches>>
    /\ UNCHANGED pluginVars

\* SpotifyPlayerDial.onDidReceiveSettings for dial d, new settings.imgUrl = u
\* and settings.global.refreshRate = g.
DialOnDidReceiveSettings(d, u, g) ==
    /\ d \in visible
    /\ refreshRate' = g
    /\ IF MapHas(dialActions, d)
       THEN /\ dialActions' = MapSet(dialActions, d, u)
            /\ SetDisplay(updateImage(Display, d, u))
       ELSE UNCHANGED <<dialActions, imgFetches, shown>>
    /\ UNCHANGED <<visible, instances, action, updateInterval, timers,
                   starts, tickFetches, image, bridge, dl>>
    /\ UNCHANGED <<period, posts, unhandled, refreshFetches>>
    /\ UNCHANGED pluginVars

\* A rotation by zero ticks resolved to the down command.
RotateAction_ZeroIsDown(t, up, down) == IF t <= 0 THEN down ELSE up

\* The command a rotation by t ticks is bound to.
RotateAction(t, up, down) == IF t < 0 THEN down ELSE up

\* SpotifyPlayerDial.onDialRotate for dial d: payload.ticks = t, and
\* settings.dialActionUp = up, settings.dialActionDown = down.  The url of
\* the payload's settings is the one the registry holds for a visible dial.
DialOnDialRotate(d, t, up, down) ==
    /\ d \in visible
    /\ IF RotateAction(t, up, down) = ""
       THEN UNCHANGED posts
       ELSE /\ Len(posts) < MaxPosts
            /\ posts' = Append(posts, [src |-> "rotate", who |-> d,
                                       url |-> MapGet(dialActions, d),
                                       cmd |-> RotateAction(t, up, down),
                                       value |-> Undefined, ticks |-> Abs(t)])
    /\ UNCHANGED <<visible, instances, action, dialActions, updateInterval, timers,
                   starts, tickFetches, imgFetches, shown, image, bridge, dl>>
    /\ UNCHANGED <<refreshRate, period, unhandled, refreshFetches>>
    /\ UNCHANGED pluginVars

\* SpotifyPlayerDial.onDialDown for dial d, settings.dialActionClick = c.
DialOnDialDown(d, c) ==
    /\ d \in visible
    /\ IF c = ""
       THEN UNCHANGED posts
       ELSE /\ Len(posts) < MaxPosts
            /\ posts' = Append(posts, [src |-> "click", who |-> d,
                                       url |-> MapGet(dialActions, d),
                                       cmd |-> c, value |-> Undefined, ticks |-> 0])
    /\ UNCHANGED <<visible, instances, action, dialActions, updateInterval, timers,
                   starts, tickFetches, imgFetches, shown, image, bridge, dl>>
    /\ UNCHANGED <<refreshRate, period, unhandled, refreshFetches>>
    /\ UNCHANGED pluginVars

\* SpotifyPlayerDial.onTouchTap for dial d, settings.dialActionTap = c.
DialOnTouchTap(d, c) ==
    /\ d \in visible
    /\ IF c = ""
       THEN UNCHANGED posts
       ELSE /\ Len(posts) < MaxPosts
            /\ posts' = Append(posts, [src |-> "tap", who |-> d, url |-> "",
                                       cmd |-> c, value |-> Undefined, ticks |-> 0])
    /\ UNCHANGED <<visible, instances, action, dialActions, updateInterval, timers,
                   starts, tickFetches, imgFetches, shown, image, bridge, dl>>
    /\ UNCHANGED <<refreshRate, period, unhandled, refreshFetches>>
    /\ UNCHANGED pluginVars

\* What the chain of a handler does once the promise it hangs on has
\* settled: updateImage of the handler's own dial, or updateAllButtonStates
\* and updateAllDials, or nothing.
RunChain(c, who, url) ==
    /\ CASE c.refresh = "image" ->
              /\ SetDisplay(updateImage(Display, who, url))
              /\ UNCHANGED refreshFetches
         [] c.refresh = "all" ->
              /\ SetDisplay(updateAllDials(Display, dialActions))
              /\ refreshFetches < MaxRefreshes
              /\ refreshFetches' = refreshFetches + 1
         [] OTHER -> UNCHANGED <<imgFetches, shown, refreshFetches>>
    /\ unhandled' = (unhandled \/ c.escaped)

\* SpotifyBaseAction.onKeyDown for key b: handleAction sends the command of
\* the key's class.  handleAction of the start-playlist key sends nothing
\* while this.playlistUri is empty: its promise is fulfilled at once and the
\* chain of onKeyDown runs in the same task.
ButtonOnKeyDown(b) ==
    /\ b \in visible
    /\ IF kindOf(b) = "playlist" /\ playlistUri = ""
       THEN /\ RunChain(KeyChain("resolved"), b, "")
            /\ UNCHANGED posts
       ELSE /\ Len(posts) < MaxPosts
            /\ posts' = Append(posts, [src |-> "key", who |-> b, url |-> "",
                                       cmd |-> KeyCommand(kindOf(b)),
                                       value |-> KeyValue(kindOf(b)), ticks |-> 0])
            /\ UNCHANGED <<imgFetches, shown, refreshFetches, unhandled>>
    /\ UNCHANGED <<visible, instances, action, dialActions, updateInterval, timers,
                   starts, tickFetches, image, bridge, dl>>
    /\ UNCHANGED <<refreshRate, period>>
    /\ UNCHANGED pluginVars

\* SpotifyStartPlaylistAction.onDidReceiveSettings: settings.playlistUri = p.
PlaylistOnDidReceiveSettings(p) ==
    /\ playlistUri' = p
    /\ UNCHANGED <<volume, volumeSetting>>
    /\ UNCHANGED <<visible, instances, action, dialActions, updateInterval, timers,
                   starts, tickFetches, imgFetches, shown, image, bridge, dl>>
    /\ UNCHANGED <<refreshRate, period, posts, unhandled, refreshFetches>>
    /\ UNCHANGED <<backendVars, variantVars>>

\* SpotifyVolumeSetAction.onDidReceiveSettings: settings.volume = v.
VolumeSetOnDidReceiveSettings(v) ==
    /\ volumeSetting' = v
    /\ volume' = (IF v = Undefined \/ v = 0 THEN DefaultVolume ELSE v)
    /\ UNCHANGED <<visible, instances, action, dialActions, updateInterval, timers,
                   starts, tickFetches, imgFetches, shown, image, bridge, dl>>
    /\ UNCHANGED <<refreshRate, period, posts, unhandled, refreshFetches, playlistUri>>
    /\ UNCHANGED <<backendVars, variantVars>>

\* The POST of the i-th sendAction in flight ends with outcome o, and the
\* chain of the handler that sent it runs.
PostEnds(i, o) ==
    /\ i \in 1..Len(posts)
    /\ posts' = Splice(posts, i)
    /\ RunChain(Chain(posts[i].src, sendAction(o)), posts[i].who, posts[i].url)
    /\ UNCHANGED <<visible, instances, action, dialActions, updateInterval, timers,
                   starts, tickFetches, image, bridge, dl>>
    /\ UNCHANGED <<refreshRate, period>>
    /\ UNCHANGED pluginVars

\* The states fetch of an updateAllButtonStates that a handler's chain
\* called ends with outcome o.
RefreshStatesFetched(o) ==
    /\ refreshFetches > 0
    /\ refreshFetches' = refreshFetches - 1
    /\ image' = PushStates(image, o)
    /\ UNCHANGED <<visible, instances, action, dialActions, updateInterval, timers,
                   starts, tickFetches, imgFetches, shown, bridge, dl>>
    /\ UNCHANGED <<refreshRate, period, posts, unhandled>>
    /\ UNCHANGED pluginVars

\* The request of one updateImage(d, u) ends with outcome o.
ImageRequestEnds(d, u, o) ==
    /\ u # ""
    /\ imgFetches[<<d, u>>] > 0
    /\ imgFetches' = [imgFetches EXCEPT ![<<d, u>>] = @ - 1]
    /\ shown' = [shown EXCEPT ![d] = FeedbackFor(u, o)]
    /\ UNCHANGED <<visible, instances, action, dialActions, updateInterval, timers,
                   starts, tickFetches, image, bridge, dl>>
    /\ UNCHANGED <<refreshRate, period, posts, unhandled, refreshFetches>>
    /\ UNCHANGED pluginVars

\* The states fetch of the i-th suspended startGlobalUpdate ends: the rest
\* of updateAllButtonStates, then updateAllDials, then getGlobalSettings.
StartStatesFetched(i, o) ==
    /\ i \in 1..Len(starts)
    /\ starts[i].pc = "awaitStates"
    /\ image' = PushStates(image, o)
    /\ SetDisplay(updateAllDials(Display, dialActions))
    /\ starts' = [starts EXCEPT ![i] = [pc |-> "awaitSettings",
                                         refreshes |-> @.refreshes + 1,
                                         fanouts |-> @.fanouts + 1]]
    /\ UNCHANGED <<visible, instances, action, dialActions, updateInterval, timers,
                   tickFetches, bridge, dl>>
    /\ UNCHANGED <<refreshRate, period, posts, unhandled, refreshFetches>>
    /\ UNCHANGED pluginVars

\* getGlobalSettings of the i-th suspended startGlobalUpdate answers:
\* setInterval, and the handle is stored.
StartSettingsRead(i) ==
    /\ i \in 1..Len(starts)
    /\ starts[i].pc = "awaitSettings"
    /\ Cardinality(timers) < MaxTimers
    /\ timers' = timers \cup {NewHandle}
    /\ period' = [period EXCEPT ![NewHandle] = RefreshPeriod(refreshRate)]
    /\ updateInterval' = NewHandle
    /\ starts' = Splice(starts, i)
    /\ UNCHANGED <<visible, instances, action, dialActions, tickFetches,
                   imgFetches, shown, image, bridge, dl>>
    /\ UNCHANGED <<refreshRate, posts, unhandled, refreshFetches>>
    /\ UNCHANGED pluginVars

\* An active interval fires: the callback sends the states fetch.
TimerFires(h) ==
    /\ h \in timers
    /\ tickFetches < MaxTicks
    /\ tickFetches' = tickFetches + 1
    /\ UNCHANGED <<visible, instances, action, dialActions, updateInterval, timers,
                   starts, imgFetches, shown, image, bridge, dl>>
    /\ UNCHANGED <<refreshRate, period, posts, unhandled, refreshFetches>>
    /\ UNCHANGED pluginVars

\* A timer callback for which a failed states fetch is fatal: it clears the
\* interval.
TickStatesFetched_StopOnFailure(o) ==
    /\ tickFetches > 0
    /\ tickFetches' = tickFetches - 1
    /\ image' = PushStates(image, o)
    /\ SetDisplay(updateAllDials(Display, dialActions))
    /\ IF o = "ok" THEN UNCHANGED <<timers, period, updateInterval>> ELSE stopGlobalUpdate
    /\ UNCHANGED <<visible, instances, action, dialActions, starts, bridge, dl>>
    /\ UNCHANGED <<refreshRate, posts, unhandled, refreshFetches>>
    /\ UNCHANGED pluginVars

\* The states fetch of a timer callback ends: push, then updateAllDials.
TickStatesFetched(o) ==
    /\ tickFetches > 0
    /\ tickFetches' = tickFetches - 1
    /\ image' = PushStates(image, o)
    /\ SetDisplay(updateAllDials(Display, dialActions))
    /\ UNCHANGED <<visible, instances, action, dialActions, updateInterval, timers,
                   starts, bridge, dl>>
    /\ UNCHANGED <<refreshRate, period, posts, unhandled, refreshFetches>>
    /\ UNCHANGED pluginVars

\* The player state behind the bridge changes.
BridgeChanges ==
    /\ \/ bridge' = [bridge EXCEPT !.is_playing = ~@]
       \/ bridge' = [bridge EXCEPT !.is_liked = ~@]
    /\ UNCHANGED <<visible, instances, action, dialActions, updateInterval, timers,
                   starts, tickFetches, imgFetches, shown, image, dl>>
    /\ UNCHANGED <<refreshRate, period, posts, unhandled, refreshFetches>>
    /\ UNCHANGED pluginVars

\* The events of key widgets B.
ButtonNext(B) ==
    \/ \E b \in B : ButtonOnWillAppear(b)
    \/ \E b \in B : ButtonOnWillDisappear(b)

\* The events of dials D whose image sources are drawn from U and whose
\* settings carry a refresh rate drawn from G.
DialNext(D, U, G) ==
    \/ \E d \in D, u \in U : DialOnWillAppear(d, u)
    \/ \E d \in D : DialOnWillDisappear(d)
    \/ \E d \in D, u \in U, g \in G : DialOnDidReceiveSettings(d, u, g)
    \/ \E d \in D, u \in U, o \in Outcomes : ImageRequestEnds(d, u, o)

\* The rotations of dials D and the ends of the dispatches in flight.
InputNext(D) ==
    \/ \E d \in D, t \in Ticks, up \in UpCommands, down \in DownCommands :
          DialOnDialRotate(d, t, up, down)
    \/ \E i \in 1..MaxPosts, o \in PostOutcomes : PostEnds(i, o)

\* The presses of keys B, the presses and taps of dials D, and the ends of
\* the states fetches their chains sent.
PressNext(B, D) ==
    \/ \E b \in B : ButtonOnKeyDown(b)
    \/ \E d \in D, c \in ClickCommands : DialOnDialDown(d, c)
    \/ \E d \in D, c \in TapCommands : DialOnTouchTap(d, c)
    \/ \E o \in StatesOutcomes : RefreshStatesFetched(o)

\* The completions and timer callbacks of the global update.
SchedulerNext ==
    \/ \E i \in 1..MaxStarts, o \in StatesOutcomes : StartStatesFetched(i, o)
    \/ \E i \in 1..MaxStarts : StartSettingsRead(i)
    \/ \E h \in 1..MaxTimers : TimerFires(h)
    \/ \E o \in StatesOutcomes : TickStatesFetched(o)

\* Three keys (two of one action class) and one dial with one image source.
Next == ButtonNext({"b1", "b2", "b3"}) \/ DialNext({"d1"}, {"a"}, {0}) \/ SchedulerNext

Spec == Init /\ [][Next]_vars

\* One key and one dial whose image source changes.
RegistryNext == ButtonNext({"b1"}) \/ DialNext({"d1"}, {"a", "b"}, {0}) \/ SchedulerNext

SpecRegistry == Init /\ [][RegistryNext]_vars

\* One dial and its rotations.
InputSpecNext ==
    \/ DialNext({"d1"}, {"a"}, {0})
    \/ SchedulerNext
    \/ InputNext({"d1"})

SpecInput == Init /\ [][InputSpecNext]_vars

\* One key and one dial that stay visible, with every input handler.
HandlersNext ==
    \/ ButtonOnWillAppear("b1")
    \/ DialOnWillAppear("d1", "a")
    \/ SchedulerNext
    \/ InputNext({"d1"})
    \/ PressNext({"b1"}, {"d1"})

SpecHandlers == Init /\ [][HandlersNext]_vars

\* The start-playlist key and one dial that stay visible, with every input
\* handler and with settings that leave commands and playlist unset.
UnboundNext ==
    \/ ButtonOnWillAppear("b4")
    \/ DialOnWillAppear("d1", "a")
    \/ \E p \in PlaylistUris : PlaylistOnDidReceiveSettings(p)
    \/ SchedulerNext
    \/ InputNext({"d1"})
    \/ PressNext({"b4"}, {"d1"})

SpecUnbound == Init /\ [][UnboundNext]_vars

\* The volume-set key, its settings and its presses.
VolumeNext ==
    \/ ButtonNext({"b7"})
    \/ \E v \in StoredVolumes : VolumeSetOnDidReceiveSettings(v)
    \/ ButtonOnKeyDown("b7")
    \/ \E i \in 1..MaxPosts, o \in PostOutcomes : PostEnds(i, o)
    \/ \E o \in StatesOutcomes : RefreshStatesFetched(o)
    \/ SchedulerNext

SpecVolume == Init /\ [][VolumeNext]_vars

\* One dial and one button: the settings carry two refresh rates.
RatesNext == ButtonNext({"b1"}) \/ DialNext({"d1"}, {"a"}, {0, 2}) \/ SchedulerNext

SpecRates == Init /\ [][RatesNext]_vars

\* A dial whose settings events store every kind of refresh rate.
PeriodNext == DialNext({"d1"}, {"a"}, StoredRates) \/ SchedulerNext

SpecPeriod == Init /\ [][PeriodNext]_vars

\* Two buttons of different kinds while the bridge's states change.
\* The player's shuffle or mute state changes at the bridge.
BridgeChangesVolume ==
    /\ \/ bridge' = [bridge EXCEPT !.is_shuffle = ~@]
       \/ bridge' = [bridge EXCEPT !.is_muted = ~@]
    /\ UNCHANGED <<visible, instances, action, dialActions, updateInterval, timers,
                   starts, tickFetches, imgFetches, shown, image, dl>>
    /\ UNCHANGED <<refreshRate, period, posts, unhandled, refreshFetches>>
    /\ UNCHANGED pluginVars

\* One key of each kind whose image depends on the snapshot, and a player
\* whose four flags change.
IconsNext ==
    \/ \E b \in {"b1", "b3", "b5", "b6"} : ButtonOnWillAppear(b)
    \/ SchedulerNext
    \/ BridgeChanges
    \/ BridgeChangesVolume

SpecIcons == Init /\ [][IconsNext]_vars

PushNext == ButtonNext({"b1", "b3"}) \/ SchedulerNext \/ BridgeChanges

SpecPush == Init /\ [][PushNext]_vars

\* One dial whose image source changes, and no button.
SettingsNext == DialNext({"d1"}, {"a", "b"}, {0}) \/ SchedulerNext

SpecSettings == Init /\ [][SettingsNext]_vars

\* Dial d1 comes and goes while dial d2 stays, with the scheduler's ticks
\* and the taps on d2.
FanOutNext ==
    \/ \E d \in Dials : DialOnWillAppear(d, "a")
    \/ DialOnWillDisappear("d1")
    \/ \E d \in Dials : ImageRequestEnds(d, "a", "ok")
    \/ DialOnTouchTap("d2", "playpause")
    \/ \E i \in 1..MaxPosts, o \in {"ok", "error"} : PostEnds(i, o)
    \/ RefreshStatesFetched("ok")
    \/ SchedulerNext

SpecFanOut == Init /\ [][FanOutNext]_vars

\* Two dials, some without an image source, and no button.
DialsNext == DialNext({"d1", "d2"}, {"", "a"}, {0}) \/ SchedulerNext

SpecDials == Init /\ [][DialsNext]_vars

\* Two keys of one action class, a changing player state, a timer that
\* keeps firing and a bridge that keeps answering.
FairNext == ButtonNext({"b1", "b2"}) \/ SchedulerNext \/ BridgeChanges

FairSpec ==
    /\ Init
    /\ [][FairNext]_vars
    /\ WF_vars(\E h \in 1..MaxTimers : TimerFires(h))
    /\ SF_vars(TickStatesFetched("ok"))
    /\ WF_vars(\E i \in 1..MaxStarts : StartStatesFetched(i, "ok"))
    /\ WF_vars(\E i \in 1..MaxStarts : StartSettingsRead(i))

\* --------------------------------------- the retrying dial (downloadImage)
\* The promise updateImage awaits is settled once; later calls are ignored.
Settle(c, how) == IF c.settled = "none" THEN [c EXCEPT !.settled = how] ELSE c

\* updateImage of the retrying dial after its await: setFeedback with the
\* image when downloadImage resolved, only a log line when it rejected.
Resolved(c) ==
    IF c.settled = "none"
    THEN [c EXCEPT !.settled = "resolved", !.feedback = Base64Image(c.url)]
    ELSE c

\* The error handler retrying once more, at retries = 0.
OnError_RetryAtZero(c) ==
    IF c.retries >= 0
    THEN [c EXCEPT !.retries = @ - 1, !.attempts = @ + 1]
    ELSE Settle([c EXCEPT !.phase = "done"], "rejected")

\* request.on('error') of downloadImage: a further attempt with one retry
\* less, or the rejection.
OnError(c) ==
    IF c.retries > 0
    THEN [c EXCEPT !.retries = @ - 1, !.attempts = @ + 1]
    ELSE Settle([c EXCEPT !.phase = "done"], "rejected")

\* A response whose status is not 200 handled like a transport error.
OnStatus_Retry(c) == OnError(c)

\* The response callback of downloadImage for a status other than 200:
\* reject and return.
OnStatus(c) == Settle([c EXCEPT !.phase = "done"], "rejected")

\* request.on('timeout'): destroy and reject; the destroyed request then
\* emits 'error' (socket hang up), which runs the error handler.
OnTimeout(c) == OnError(Settle(c, "rejected"))

\* updateImage(action, u) of the retrying dial calls downloadImage(u, r).
DownloadImage(u, r) ==
    /\ dl.phase # "attempt"
    /\ dl' = [phase |-> "attempt", url |-> u, r0 |-> r, retries |-> r,
              attempts |-> 1, settled |-> "none", onlyErrors |-> TRUE,
              feedback |-> dl.feedback]
    /\ UNCHANGED <<schedVars, variantVars>>

\* The request in flight ends with outcome o.
AttemptEnds(o) ==
    LET c == [dl EXCEPT !.onlyErrors = @ /\ o = "error"] IN
    /\ dl.phase = "attempt"
    /\ dl' = CASE o = "ok" -> Resolved([c EXCEPT !.phase = "done"])
               [] o = "status" -> OnStatus(c)
               [] o = "error" -> OnError(c)
               [] OTHER -> OnTimeout(c)
    /\ UNCHANGED <<schedVars, variantVars>>

\* ---- One updateImage call of the registry dial, event by event ----

\* reject that runs the catch block of updateImage on every call.
UiReject_EveryTime(c, why) ==
    [c EXCEPT !.settled = IF @ = "none" THEN "rejected" ELSE @,
              !.cause = IF @ = "none" THEN why ELSE @,
              !.feedback = Append(@, ErrorImage)]

\* reject(...) inside the promise of updateImage: the first settlement wins,
\* and the catch block then calls setFeedback with the error placeholder.
UiReject(c, why) ==
    IF c.settled = "none"
    THEN [c EXCEPT !.settled = "rejected", !.cause = why,
                   !.feedback = Append(@, ErrorImage)]
    ELSE c

\* resolve(base64Image) in response.on('end'), then setFeedback with it.
UiResolve(c) ==
    IF c.settled = "none"
    THEN [c EXCEPT !.settled = "resolved", !.cause = "ok",
                   !.feedback = Append(@, Base64Image(c.url))]
    ELSE c

\* SpotifyPlayerDial.updateImage(action of d, u) sends its request.
UpdateImageCall(d, u) ==
    /\ ui[d].phase \in {"idle", "closed"}
    /\ ui' = [ui EXCEPT ![d] = [IdleCall EXCEPT !.phase = "open", !.url = u]]
    /\ UNCHANGED <<schedVars, dl, dialVariantVars>>

\* The response callback: a status other than 200 rejects and leaves the
\* body unread; a 200 body read to its end resolves.
ResponseArrives(d, o) ==
    /\ ui[d].phase = "open"
    /\ ui' = [ui EXCEPT ![d] =
                 IF o = "ok" THEN UiResolve([@ EXCEPT !.phase = "closed"])
                             ELSE UiReject([@ EXCEPT !.phase = "unread"], "status")]
    /\ UNCHANGED <<schedVars, dl, dialVariantVars>>

\* request.on('timeout'): destroy, then reject.
RequestTimeout(d) ==
    /\ ui[d].phase \in {"open", "unread"}
    /\ ui' = [ui EXCEPT ![d] = UiReject([@ EXCEPT !.phase = "destroyed"], "timeout")]
    /\ UNCHANGED <<schedVars, dl, dialVariantVars>>

\* request.on('error'): of the connection, or of a destroyed request.
RequestError(d) ==
    /\ ui[d].phase \in {"open", "destroyed"}
    /\ ui' = [ui EXCEPT ![d] = UiReject([@ EXCEPT !.phase = "closed"], "error")]
    /\ UNCHANGED <<schedVars, dl, dialVariantVars>>

UiNext ==
    \/ \E d \in Dials, u \in {"a", "b"} : UpdateImageCall(d, u)
    \/ \E d \in Dials, o \in {"ok", "status"} : ResponseArrives(d, o)
    \/ \E d \in Dials : RequestTimeout(d)
    \/ \E d \in Dials : RequestError(d)

SpecUi == Init /\ [][UiNext]_vars

\* ---- The dial variants that keep their own refresh intervals ----

\* The handle setInterval returns: one the runtime has not handed out.
FreeHandles == (1..MaxIntervals) \ {t.h : t \in pdTimers}

NewInterval == CHOOSE h \in FreeHandles : \A g \in FreeHandles : h <= g

\* setInterval(() => this.updateImage(action of d, u), ...) returning h.
SetInterval(ts, h, d, u) == ts \cup {[h |-> h, dial |-> d, url |-> u]}

\* clearInterval(h) for every handle of H.
ClearIntervals(ts, H) == {t \in ts : t.h \notin H}

\* onWillAppear of both variants up to its await of updateImage.
VariantOnWillAppear(d, u) ==
    /\ Len(pdAppearing) < MaxAppearing
    /\ pdVisible' = pdVisible \cup {d}
    /\ pdUrl' = [pdUrl EXCEPT ![d] = u]
    /\ pdAppearing' = Append(pdAppearing, [dial |-> d, url |-> u])
    /\ UNCHANGED <<pdTimers, refreshIntervals>>
    /\ UNCHANGED <<schedVars, dl, ui>>

\* Interval per URL: this.clearInterval(url) on the Map keyed by url.
clearInterval(u) ==
    LET hit == {e \in refreshIntervals : e.url = u} IN
    [timers |-> ClearIntervals(pdTimers, {e.h : e \in hit}),
     map |-> refreshIntervals \ hit]

\* Interval per URL: the rest of onWillAppear after updateImage has ended.
UrlDialAppearResumes(i) ==
    /\ i \in 1..Len(pdAppearing)
    /\ pdAppearing' = Splice(pdAppearing, i)
    /\ IF \E e \in refreshIntervals : e.url = pdAppearing[i].url
       THEN UNCHANGED <<pdTimers, refreshIntervals>>
       ELSE /\ FreeHandles # {}
            /\ pdTimers' = SetInterval(pdTimers, NewInterval,
                                       pdAppearing[i].dial, pdAppearing[i].url)
            /\ refreshIntervals' = refreshIntervals \cup
                                      {[url |-> pdAppearing[i].url, h |-> NewInterval]}
    /\ UNCHANGED <<pdVisible, pdUrl>>
    /\ UNCHANGED <<schedVars, dl, ui>>

\* Interval per URL: onDidReceiveSettings of dial d with settings.imgUrl = u.
UrlDialOnDidReceiveSettings(d, u) ==
    /\ d \in pdVisible
    /\ FreeHandles # {}
    /\ pdUrl' = [pdUrl EXCEPT ![d] = u]
    /\ pdTimers' = SetInterval(clearInterval(u).timers, NewInterval, d, u)
    /\ refreshIntervals' = clearInterval(u).map \cup {[url |-> u, h |-> NewInterval]}
    /\ UNCHANGED <<pdVisible, pdAppearing>>
    /\ UNCHANGED <<schedVars, dl, ui>>

\* Interval per URL: onWillDisappear of dial d.
UrlDialOnWillDisappear(d) ==
    /\ d \in pdVisible
    /\ pdVisible' = pdVisible \ {d}
    /\ pdTimers' = clearInterval(pdUrl[d]).timers
    /\ refreshIntervals' = clearInterval(pdUrl[d]).map
    /\ UNCHANGED <<pdUrl, pdAppearing>>
    /\ UNCHANGED <<schedVars, dl, ui>>

UrlDialNext ==
    \/ \E d \in Dials, u \in {"a", "b"} : VariantOnWillAppear(d, u)
    \/ \E i \in 1..MaxAppearing : UrlDialAppearResumes(i)
    \/ \E d \in Dials, u \in {"a", "b"} : UrlDialOnDidReceiveSettings(d, u)
    \/ \E d \in Dials : UrlDialOnWillDisappear(d)

SpecUrlDial == Init /\ [][UrlDialNext]_vars

\* Interval set: the rest of onWillAppear after updateImage has ended.
SetDialAppearResumes(i) ==
    /\ i \in 1..Len(pdAppearing)
    /\ FreeHandles # {}
    /\ pdAppearing' = Splice(pdAppearing, i)
    /\ pdTimers' = SetInterval(pdTimers, NewInterval,
                               pdAppearing[i].dial, pdAppearing[i].url)
    /\ refreshIntervals' = refreshIntervals \cup {NewInterval}
    /\ UNCHANGED <<pdVisible, pdUrl>>
    /\ UNCHANGED <<schedVars, dl, ui>>

\* Interval set: onDidReceiveSettings of dial d: clearAllIntervals, then a
\* new interval.
SetDialOnDidReceiveSettings(d, u) ==
    /\ d \in pdVisible
    /\ pdUrl' = [pdUrl EXCEPT ![d] = u]
    /\ LET left == ClearIntervals(pdTimers, refreshIntervals)
           h == CHOOSE f \in (1..MaxIntervals) \ {t.h : t \in left} :
                    \A g \in (1..MaxIntervals) \ {t.h : t \in left} : f <= g
       IN /\ (1..MaxIntervals) \ {t.h : t \in left} # {}
          /\ pdTimers' = SetInterval(left, h, d, u)
          /\ refreshIntervals' = {h}
    /\ UNCHANGED <<pdVisible, pdAppearing>>
    /\ UNCHANGED <<schedVars, dl, ui>>

\* Interval set: onWillDisappear of dial d: clearAllIntervals.
SetDialOnWillDisappear(d) ==
    /\ d \in pdVisible
    /\ pdVisible' = pdVisible \ {d}
    /\ pdTimers' = ClearIntervals(pdTimers, refreshIntervals)
    /\ refreshIntervals' = {}
    /\ UNCHANGED <<pdUrl, pdAppearing>>
    /\ UNCHANGED <<schedVars, dl, ui>>

SetDialNext ==
    \/ \E d \in Dials, u \in {"a", "b"} : VariantOnWillAppear(d, u)
    \/ \E i \in 1..MaxAppearing : SetDialAppearResumes(i)
    \/ \E d \in Dials, u \in {"a", "b"} : SetDialOnDidReceiveSettings(d, u)
    \/ \E d \in Dials : SetDialOnWillDisappear(d)

SpecSetDial == Init /\ [][SetDialNext]_vars

\* ---- The backend process (plugin.ts) ----

GlobalSettings == [clientId : ClientIds, clientSecret : ClientSecrets, refreshRate : Rates]

\* !settings.clientId || !settings.clientSecret
CredentialsMissing(c) == c.clientId = "" \/ c.clientSecret = ""

\* Processes spawned that were neither killed nor have exited.
Running == {p \in 1..MaxProcs : procs[p] = "running"}

\* The synchronous part of startPythonBackend: kill the process the handle
\* refers to, clear the handle, and suspend at getGlobalSettings.
startPythonBackend ==
    /\ IF pythonProcess # NoProcess
       THEN /\ procs' = [procs EXCEPT ![pythonProcess] =
                                IF @ = "running" THEN "killed" ELSE @]
            /\ pythonProcess' = NoProcess
       ELSE UNCHANGED <<procs, pythonProcess>>
    /\ backendStarts < MaxBackendStarts
    /\ backendStarts' = backendStarts + 1

\* SpotifyBaseAction.restartGlobalUpdate: stop, then start.
restartGlobalUpdate ==
    /\ stopGlobalUpdate
    /\ Len(starts) < MaxStarts
    /\ starts' = Append(starts, NewStart)

\* The settings of an event: the global section and the order in which the
\* sender wrote its keys.
SettingsEvents(G) == [global : G, order : KeyOrders]

\* JSON.stringify(settings.global): the keys in the order of the object.
Stringify(e) ==
    LET id == "clientId:" \o e.global.clientId
        secret == "clientSecret:" \o e.global.clientSecret
        rate == "refreshRate:" \o ToString(e.global.refreshRate)
    IN IF e.order = "idFirst"
       THEN "{" \o id \o "," \o secret \o "," \o rate \o "}"
       ELSE "{" \o secret \o "," \o id \o "," \o rate \o "}"

\* lastSettings && JSON.stringify(lastSettings.global) === JSON.stringify(settings.global)
SameSettings(last, e) == last # NoSettings /\ Stringify(last[1]) = Stringify(e)

\* streamDeck.settings.onDidReceiveSettings of plugin.ts with
\* ev.payload.settings = e.
PluginOnDidReceiveSettings(e) ==
    /\ IF SameSettings(lastSettings, e)
       THEN UNCHANGED <<lastSettings, credentials, refreshRate, timers, period,
                        updateInterval, starts, procs, pythonProcess, backendStarts>>
       ELSE /\ lastSettings' = <<e>>
            /\ credentials' = [clientId |-> e.global.clientId,
                               clientSecret |-> e.global.clientSecret]
            /\ refreshRate' = e.global.refreshRate
            /\ restartGlobalUpdate
            /\ startPythonBackend
    /\ UNCHANGED <<visible, instances, action, dialActions, tickFetches, imgFetches,
                   shown, image, bridge, posts, unhandled, refreshFetches,
                   playlistUri, volume, volumeSetting, envFile, dl, variantVars>>

\* getGlobalSettings of a suspended startPythonBackend answers: return when
\* the credentials are missing, else write .env and spawn the backend.
BackendSettingsRead ==
    /\ backendStarts > 0
    /\ backendStarts' = backendStarts - 1
    /\ IF CredentialsMissing(credentials)
       THEN UNCHANGED <<envFile, procs, pythonProcess>>
       ELSE /\ \E p \in 1..MaxProcs : procs[p] = "none"
            /\ LET p == CHOOSE q \in 1..MaxProcs :
                            procs[q] = "none" /\ \A r \in 1..(q - 1) : procs[r] # "none"
               IN /\ envFile' = <<credentials>>
                  /\ procs' = [procs EXCEPT ![p] = "running"]
                  /\ pythonProcess' = p
    /\ UNCHANGED <<credentials, lastSettings>>
    /\ UNCHANGED <<visible, instances, action, dialActions, updateInterval, timers,
                   starts, tickFetches, imgFetches, shown, image, bridge, dl>>
    /\ UNCHANGED <<refreshRate, period, posts, unhandled, refreshFetches, playlistUri, volume, volumeSetting>>
    /\ UNCHANGED variantVars

\* Backend process p exits, killed or by itself: its 'close' handler runs.
ProcessCloses(p) ==
    /\ procs[p] \in {"running", "killed"}
    /\ procs' = [procs EXCEPT ![p] = "closed"]
    /\ pythonProcess' = NoProcess
    /\ UNCHANGED <<credentials, lastSettings, backendStarts, envFile>>
    /\ UNCHANGED <<visible, instances, action, dialActions, updateInterval, timers,
                   starts, tickFetches, imgFetches, shown, image, bridge, dl>>
    /\ UNCHANGED <<refreshRate, period, posts, unhandled, refreshFetches, playlistUri, volume, volumeSetting>>
    /\ UNCHANGED variantVars

BackendNext ==
    \/ \E e \in SettingsEvents([clientId : ClientIds, clientSecret : ClientSecrets,
                                refreshRate : {0, 2}]) :
           PluginOnDidReceiveSettings(e)
    \/ BackendSettingsRead
    \/ \E p \in 1..MaxProcs : ProcessCloses(p)
    \/ ButtonOnWillAppear("b1")
    \/ SchedulerNext

SpecBackend == Init /\ [][BackendNext]_vars

\* Settings events that differ in the client id or only in their key order.
DedupEvents ==
    {e \in SettingsEvents([clientId : ClientIds, clientSecret : {"secret"},
                           refreshRate : {0}]) :
        e.global.clientId = "id" \/ e.order = "idFirst"}

DedupNext ==
    \/ \E e \in DedupEvents : PluginOnDidReceiveSettings(e)
    \/ BackendSettingsRead
    \/ \E p \in 1..MaxProcs : ProcessCloses(p)
    \/ SchedulerNext

SpecDedup == Init /\ [][DedupNext]_vars

DlNext ==
    \/ \E u \in {"a", "b"}, r \in 0..MaxRetries : DownloadImage(u, r)
    \/ \E o \in Outcomes : AttemptEnds(o)

SpecDl == Init /\ [][DlNext]_vars

\* ================================================================ claims
\* C1: in every reachable state at most one recurring timer created by
\* startGlobalUpdate is active.
C1_AtMostOneTimer == Cardinality(timers) <= 1

\* C2: when the button list and the dial map are empty and no start is in
\* progress, no recurring timer is active.
C2_NoWidgetNoTimer ==
    (instances = <<>> /\ dialActions = <<>> /\ starts = <<>>) => timers = {}

\* C3: a step that leaves at least one widget visible before and after it
\* never stops a running timer.
C3_NeverStoppedWhileVisible ==
    [][(visible \cap visible' # {} /\ timers # {}) => timers' # {}]_vars

C5_StaleNeverApplied ==
    [][\A d \in Dials, u \in Urls \ {""} :
          (imgFetches'[<<d, u>>] < imgFetches[<<d, u>>] /\ shown'[d] = Base64Image(u))
              => ~(MapHas(dialActions, d) /\ MapGet(dialActions, d) # u)]_vars

\* C6: a downloadImage call with retries = r never issues more than r + 1
\* requests; when every request ended with a transport error it has issued
\* exactly r + 1 of them once it is over, its promise is then rejected, and
\* it is not rejected before.
C6_RetryBound ==
    /\ dl.attempts <= dl.r0 + 1
    /\ (dl.onlyErrors /\ dl.phase = "done") =>
            (dl.attempts = dl.r0 + 1 /\ dl.settled = "rejected")
    /\ (dl.onlyErrors /\ dl.phase = "attempt") => dl.settled = "none"

\* C6 witness: a call with the default retries, over after four requests
\* that all ended with a transport error.
C6_Witness ==
    /\ dl.phase = "done"
    /\ dl.onlyErrors
    /\ dl.r0 = DefaultRetries
    /\ dl.attempts = DefaultRetries + 1
    /\ dl.settled = "rejected"

\* C7: once an image fetch has failed terminally, the dial shows the fixed
\* placeholder image.
C7_PlaceholderOnFailure == dl.settled = "rejected" => dl.feedback = ErrorImage

\* C8: at most one states fetch issued by a timer tick is outstanding.
C8_OneTickFetch == tickFetches <= 1

\* C9: every key that is visible is eventually hidden or shows the image
\* computed from the current states.
C9_EventuallyRefreshed ==
    \A b \in {"b1", "b2"} :
        [](b \in visible =>
              <>(b \notin visible \/ image[b] = Presentation(kindOf(b), bridge)))

\* C10: a timer is created only by a start that has completed one states
\* refresh and one dial fan-out, and that start ends there; a start is
\* suspended (its states fetch sent) only when updateInterval is unset, it
\* begins before its refresh, and the step creates no timer; an appear
\* event that calls start with updateInterval set suspends no start, sends
\* no states fetch and creates no timer.
C10_ImmediateTickThenTimer ==
    [][/\ (timers' \ timers # {}) =>
            \E i \in 1..Len(starts) :
                /\ starts[i].pc = "awaitSettings"
                /\ starts[i].refreshes = 1
                /\ starts[i].fanouts = 1
                /\ starts' = Splice(starts, i)
       /\ (Len(starts') > Len(starts)) =>
            /\ updateInterval = NoTimer
            /\ starts'[Len(starts')].pc = "awaitStates"
            /\ starts'[Len(starts')].refreshes = 0
            /\ starts'[Len(starts')].fanouts = 0
            /\ timers' = timers
       /\ (/\ updateInterval # NoTimer
           /\ \/ \E d \in Dials, u \in Urls : DialOnWillAppear(d, u)
              \/ \E b \in Buttons : ButtonOnWillAppear(b)) =>
            /\ starts' = starts
            /\ tickFetches' = tickFetches
            /\ timers' = timers
            /\ updateInterval' = updateInterval]_vars

\* C10 witness: one start ran (the key got its image from the immediate
\* refresh: no timer callback is or was suspended on a fetch that succeeded
\* after it) and its timer is the only one; the dial appeared afterwards and
\* found the timer set: nothing is suspended.
C10_Witness ==
    /\ visible = {"b1", "d1"}
    /\ updateInterval # NoTimer
    /\ timers = {updateInterval}
    /\ starts = <<>>
    /\ tickFetches = 0
    /\ image["b1"] = Presentation("playpause", bridge)
    /\ shown["d1"] = NoImage
    /\ imgFetches[<<"d1", "a">>] = 1

\* A handler of the host or the chain of a dispatch runs for dial d: the
\* steps that fetch d's image at once, outside the scheduler.
DialEvent(d) ==
    \/ \E u \in Urls : DialOnWillAppear(d, u)
    \/ \E u \in Urls, g \in Rates : DialOnDidReceiveSettings(d, u, g)
    \/ \E i \in 1..Len(posts), o \in PostOutcomes : posts[i].who = d /\ PostEnds(i, o)

\* The fan-out of a tick started exactly one fetch per entry with a source.
OneFetchPerEntry ==
    \A d \in Dials, u \in Urls \ {""} :
        imgFetches'[<<d, u>>] =
            IF MapHas(dialActions, d) /\ MapGet(dialActions, d) = u
            THEN imgFetches[<<d, u>>] + 1
            ELSE imgFetches[<<d, u>>]

\* C11: registering a dial with a non-empty image source on an empty registry
\* starts exactly one fetch of that source at once; as long as no timer has
\* been created and no tick is in progress, no step other than an event of
\* that dial starts another fetch of it; and the fan-out of every tick
\* starts exactly one fetch of the source of each registered dial.
C11_OneFetchThenOnePerTick ==
    [][/\ \A d \in Dials, u \in Urls \ {""} :
            (dialActions = <<>> /\ DialOnWillAppear(d, u)) =>
                imgFetches' = [imgFetches EXCEPT ![<<d, u>>] = @ + 1]
       /\ \A d \in Dials, u \in Urls \ {""} :
            (/\ MapHas(dialActions, d)
             /\ timers = {} /\ updateInterval = NoTimer /\ tickFetches = 0
             /\ ~DialEvent(d)) =>
                imgFetches'[<<d, u>>] <= imgFetches[<<d, u>>]
       /\ (\E o \in StatesOutcomes : TickStatesFetched(o)) => OneFetchPerEntry]_vars

\* The scheduler's timer, its period and its suspended tasks are left alone.
TimerUnchanged ==
    /\ timers' = timers
    /\ updateInterval' = updateInterval
    /\ period' = period
    /\ starts' = starts
    /\ tickFetches' = tickFetches

\* Exactly one updateImage(id, u) ran in this step and began nothing else.
OneUpdateImage(id, u) ==
    IF u = ""
    THEN imgFetches' = imgFetches /\ shown' = [shown EXCEPT ![id] = ErrorImage]
    ELSE imgFetches' = [imgFetches EXCEPT ![<<id, u>>] = @ + 1] /\ shown' = shown

C13_LateButtonJoinsTick ==
    [][/\ \A b \in Buttons :
            (updateInterval # NoTimer /\ ButtonOnWillAppear(b)) =>
                /\ TimerUnchanged
                /\ IndexOf(instances', kindOf(b)) > 0
                /\ action'[kindOf(b)] = b
       /\ TickStatesFetched("ok") =>
            \A i \in 1..Len(instances) :
                image'[action[instances[i]]] = Presentation(instances[i], bridge)]_vars

\* The button appeared after the dial's timer was running with the period
\* of the settings, and a tick has pushed its image.
C13_Witness ==
    /\ "d1" \in visible /\ "b1" \in visible
    /\ updateInterval # NoTimer
    /\ period[updateInterval] = 2000
    /\ starts = <<>>
    /\ Cardinality(timers) = 1
    /\ image["b1"] # NoImage

\* C14: a timer callback sends exactly one states request, whatever is
\* registered, and pushes nothing yet; a states request of a tick that fails
\* pushes nothing; one that succeeds gives the target of every registry
\* entry the image of the same states object, and changes no other button.
C14_OneSnapshotPerTick ==
    [][/\ \A h \in 1..MaxTimers :
            TimerFires(h) => tickFetches' = tickFetches + 1 /\ image' = image
       /\ (TickStatesFetched("error") \/ TickStatesFetched("status")) => image' = image
       /\ TickStatesFetched("ok") =>
            \A b \in Buttons :
                image'[b] =
                    IF \E i \in 1..Len(instances) : action[instances[i]] = b
                    THEN Presentation(kindOf(b), bridge)
                    ELSE image[b]]_vars

\* A tick has pushed one snapshot (playing and liked) to two buttons of
\* different classes.
C14_Witness ==
    /\ {"b1", "b3"} \subseteq visible
    /\ Len(instances) = 2
    /\ bridge.is_playing /\ bridge.is_liked
    /\ image["b1"] = "imgs/action/pause.png"
    /\ image["b3"] = "imgs/action/like_filled.png"
    /\ timers # {}

\* C15: a states fetch that fails, in a tick or in the initial update,
\* changes no button's image, no timer, handle or period and no registry,
\* whatever failed before it; and an active timer can always fire again.
C15_FailedFetchIsNoOp ==
    /\ [][\A o \in {"status", "error"} :
            (TickStatesFetched(o) \/ \E i \in 1..Len(starts) : StartStatesFetched(i, o)) =>
                /\ image' = image
                /\ timers' = timers /\ updateInterval' = updateInterval /\ period' = period
                /\ instances' = instances /\ action' = action
                /\ dialActions' = dialActions /\ visible' = visible]_vars
    /\ [](\A h \in timers : tickFetches < MaxTicks => ENABLED TimerFires(h))

\* The timer is active and nothing is in flight, yet no registered button
\* has an image: the states fetches so far have pushed nothing.
C15_Witness ==
    /\ visible = {"b1", "b3"}
    /\ Len(instances) = 2
    /\ updateInterval # NoTimer
    /\ starts = <<>> /\ tickFetches = 0
    /\ \A b \in Buttons : image[b] = NoImage

\* C16: the promise of sendAction is rejected when the POST is answered with
\* a non-2xx status or the transport fails, so the .then of the handler that
\* sent it starts no image fetch; it resolves on a 2xx answer, and then the
\* .then runs.
C16_RejectedUnlessOk ==
    [][\A i \in 1..Len(posts) :
            posts[i].src = "rotate" =>
            /\ (PostEnds(i, "status") \/ PostEnds(i, "error")) =>
                  imgFetches' = imgFetches /\ shown' = shown
            /\ PostEnds(i, "ok") => OneUpdateImage(posts[i].who, posts[i].url)]_vars

\* C17: no rejection of a dispatch escapes the handler that sent it; and
\* while dispatches are in flight, however long, every active timer can
\* fire, a tick whose states fetch has answered can push and fan out, and a
\* rotation of a visible dial or a press of a visible key is still
\* dispatched.
C17_DispatchNeverStalls ==
    /\ ~unhandled
    /\ posts # <<>> =>
        /\ \A h \in timers : tickFetches < MaxTicks => ENABLED TimerFires(h)
        /\ (/\ tickFetches > 0
            /\ InFlight(updateAllDials(Display, dialActions).f) <= MaxFetches) =>
                ENABLED TickStatesFetched("ok")
        /\ Len(posts) < MaxPosts =>
            /\ \A d \in visible \cap Dials : ENABLED DialOnDialRotate(d, 3, "volumeup", "")
            /\ \A b \in visible \cap Buttons : ENABLED ButtonOnKeyDown(b)

\* The dispatches of a key and of a dial are in flight while the states
\* fetch of a tick is too.
C17_Witness ==
    /\ Len(posts) = 2
    /\ posts[1].who = "b1" /\ posts[2].who = "d1"
    /\ timers # {}
    /\ tickFetches > 0

\* C18: an image request that ends while its dial is not in the registry
\* performs no setFeedback on the dial; and a states fetch that ends changes
\* the image of no button that is not visible.
C18_NothingAppliedAfterDisappear ==
    [][/\ \A d \in Dials, u \in Urls \ {""}, o \in Outcomes :
            (~MapHas(dialActions, d) /\ ImageRequestEnds(d, u, o)) => shown' = shown
       /\ \A b \in Buttons : b \notin visible => image'[b] = image[b]]_vars

\* C19: the fan-out of a tick starts, in that one step, exactly one fetch for
\* every registered dial with a non-empty source, whatever is still in
\* flight, and applies no result; the end of one dial's request, whatever its
\* outcome, changes neither the image nor the requests of any other dial;
\* and requests that never end do not keep an answered tick from fanning out.
C19_FanOutIsConcurrent ==
    /\ [][/\ (\E o \in StatesOutcomes : TickStatesFetched(o)) =>
                OneFetchPerEntry /\ shown' = shown
          /\ \A d \in Dials, u \in Urls \ {""}, o \in Outcomes :
                ImageRequestEnds(d, u, o) =>
                    \A e \in Dials \ {d} :
                        /\ shown'[e] = shown[e]
                        /\ \A v \in Urls \ {""} : imgFetches'[<<e, v>>] = imgFetches[<<e, v>>]]_vars
    /\ []((/\ tickFetches > 0
           /\ InFlight(updateAllDials(Display, dialActions).f) <= MaxFetches) =>
              ENABLED TickStatesFetched("ok"))

\* One dial's request failed and another of its requests is still in
\* flight, while the other dial shows its image.
C19_Witness ==
    /\ MapHas(dialActions, "d1") /\ MapHas(dialActions, "d2")
    /\ MapGet(dialActions, "d1") = "a" /\ MapGet(dialActions, "d2") = "a"
    /\ timers # {}
    /\ shown["d1"] = ErrorImage
    /\ imgFetches[<<"d1", "a">>] > 0
    /\ shown["d2"] = Base64Image("a")

\* C20: a settings change for a registered dial replaces the url of that
\* dial's entry where it stands, all other entries and the size of the
\* registry staying as they were, runs exactly one updateImage of the dial
\* for the new source in the same step and leaves the timer alone; and the
\* fan-out of every tick starts fetches only for the source each entry holds
\* at that moment.
C20_SettingsUpdateInPlace ==
    [][/\ \A d \in Dials, u \in Urls, g \in Rates :
            (MapHas(dialActions, d) /\ DialOnDidReceiveSettings(d, u, g)) =>
                /\ Len(dialActions') = Len(dialActions)
                /\ \A i \in 1..Len(dialActions) :
                      dialActions'[i] = IF dialActions[i].id = d
                                        THEN [id |-> d, url |-> u]
                                        ELSE dialActions[i]
                /\ OneUpdateImage(d, u)
                /\ TimerUnchanged
       /\ (\E o \in StatesOutcomes : TickStatesFetched(o)) =>
            \A d \in Dials, u \in Urls \ {""} :
                imgFetches'[<<d, u>>] > imgFetches[<<d, u>>] =>
                    MapHas(dialActions, d) /\ MapGet(dialActions, d) = u]_vars

\* The dial's entry holds b, two requests for b are in flight and none for
\* a, whose image the dial still shows.
C20_Witness ==
    /\ dialActions = <<[id |-> "d1", url |-> "b"]>>
    /\ shown["d1"] = Base64Image("a")
    /\ imgFetches[<<"d1", "b">>] >= 2
    /\ imgFetches[<<"d1", "a">>] = 0
    /\ timers # {}

\* C21: when the dispatch of an input event fails, whatever handler sent it
\* (key press, dial rotation, dial press, touch tap), the step in which the
\* failure is handled starts no image fetch and no states fetch and changes
\* no dial feedback and no button image.
C21_FailedDispatchChangesNothing ==
    [][\A i \in 1..Len(posts) :
            PostEnds(i, "error") =>
                /\ imgFetches' = imgFetches /\ shown' = shown
                /\ refreshFetches' = refreshFetches /\ image' = image]_vars

NothingIssued ==
    /\ posts' = posts
    /\ imgFetches' = imgFetches /\ shown' = shown
    /\ refreshFetches' = refreshFetches /\ image' = image
    /\ instances' = instances /\ dialActions' = dialActions
    /\ TimerUnchanged

\* C23: a rotation, a dial press or a touch tap whose settings bind no command
\* to it, and a press of the start-playlist key while no playlist is
\* configured, dispatch nothing, fetch and refresh nothing and leave the
\* registries and the timer unchanged.
C23_UnboundInputIsNoOp ==
    [][/\ \A d \in Dials :
            /\ \A t \in Ticks, up \in UpCommands, down \in DownCommands :
                  (RotateAction(t, up, down) = "" /\ DialOnDialRotate(d, t, up, down)) =>
                      NothingIssued
            /\ DialOnDialDown(d, "") => NothingIssued
            /\ DialOnTouchTap(d, "") => NothingIssued
       /\ \A b \in Buttons :
            (kindOf(b) = "playlist" /\ playlistUri = "" /\ ButtonOnKeyDown(b)) =>
                NothingIssued]_vars

\* C24: an attempt of downloadImage that is answered with a status other than
\* 200 ends the download at once, whatever retries remain: the promise is
\* rejected, no further attempt is made and the retries left are untouched.
C24_StatusFailsAtOnce ==
    [][AttemptEnds("status") =>
            /\ dl'.phase = "done"
            /\ dl'.attempts = dl.attempts
            /\ dl'.retries = dl.retries
            /\ dl'.settled = (IF dl.settled = "none" THEN "rejected" ELSE dl.settled)
            /\ dl'.feedback = dl.feedback]_vars

\* The first attempt of a download with three retries was answered with a
\* bad status: rejected after one attempt, three retries unused.
C24_Witness ==
    /\ dl.phase = "done"
    /\ dl.settled = "rejected"
    /\ dl.r0 = DefaultRetries /\ dl.retries = DefaultRetries
    /\ dl.attempts = 1

\* C25: an attempt of downloadImage that ends by timeout while retries remain
\* is followed by a further attempt and does not yet fail the download; the
\* download fails only by a timeout or error with no retry left.
C25_TimeoutRetries ==
    [][AttemptEnds("timeout") =>
            IF dl.retries > 0
            THEN /\ dl'.phase = "attempt"
                 /\ dl'.attempts = dl.attempts + 1
                 /\ dl'.retries = dl.retries - 1
                 /\ dl'.settled = dl.settled
            ELSE /\ dl'.phase = "done"
                 /\ dl'.settled # "none"]_vars


\* C26: the period of an interval does not change while the interval is
\* active: it is the refresh rate of the global settings as read when the
\* interval was created, and a later change of refreshRate shows only in an
\* interval created by a later start.
C26_PeriodFixedWhileRunning ==
    [][/\ \A h \in timers \cap timers' : period'[h] = period[h]
       /\ \A h \in timers' \ timers :
              period'[h] = IF refreshRate = 0 THEN DefaultPeriod ELSE refreshRate * 1000]_vars

\* The stored interval still runs with the default period although the
\* refresh rate of the settings was changed to 2 after its creation.
C26_Witness ==
    /\ updateInterval \in timers
    /\ period[updateInterval] = DefaultPeriod
    /\ refreshRate = 2


\* C27: a rotation by t ticks that dispatches a command dispatches the
\* configured down command when t < 0 and the configured up command when
\* t >= 0 (zero ticks count as up), with the magnitude |t|, which is never
\* negative.
C27_RotateDirectionAndMagnitude ==
    [][\A d \in Dials, t \in Ticks, up \in UpCommands, down \in DownCommands :
            (DialOnDialRotate(d, t, up, down) /\ posts' # posts) =>
                LET p == posts'[Len(posts')] IN
                    /\ p.src = "rotate"
                    /\ p.cmd = (IF t < 0 THEN down ELSE up)
                    /\ p.ticks = (IF t < 0 THEN 0 - t ELSE t)
                    /\ p.ticks >= 0]_vars

\* Two dispatches of rotations are in flight: one by -2 ticks (down, 2) and
\* one by 0 ticks (up, 0).
C27_Witness ==
    /\ \E i \in 1..Len(posts) :
           posts[i].src = "rotate" /\ posts[i].cmd = "volumedown" /\ posts[i].ticks = 2
    /\ \E i \in 1..Len(posts) :
           posts[i].src = "rotate" /\ posts[i].cmd = "volumeup" /\ posts[i].ticks = 0


\* A states answer with a snapshot is pushed to the registered keys.
SnapshotPushed ==
    \/ TickStatesFetched("ok")
    \/ RefreshStatesFetched("ok")
    \/ \E i \in 1..MaxStarts : StartStatesFetched(i, "ok")

\* The icon the four state-dependent kinds of key show for snapshot s.
IconOf(k, s) ==
    CASE k = "playpause" -> IF s.is_playing THEN "imgs/action/pause.png"
                                            ELSE "imgs/action/play.png"
      [] k = "like" -> IF s.is_liked THEN "imgs/action/like_filled.png"
                                     ELSE "imgs/action/like.png"
      [] k = "shuffle" -> IF s.is_shuffle THEN "imgs/action/shuffle_on.png"
                                          ELSE "imgs/action/shuffle.png"
      [] k = "mute" -> IF s.is_muted THEN "imgs/action/mute.png"
                                     ELSE "imgs/action/volume.png"

\* C28: the image of a key is a function of the last snapshot pushed to it
\* and of nothing else: a push sets the image of every registered play/pause,
\* like, shuffle and mute key to the icon of is_playing, is_liked,
\* is_shuffle and is_muted of that snapshot, no other step changes an image,
\* and the push that computes the images starts no request.
C28_ImageIsFunctionOfSnapshot ==
    [][/\ SnapshotPushed =>
            /\ \A b \in {"b1", "b3", "b5", "b6"} :
                   image'[b] = IF action[kindOf(b)] = b
                               THEN IconOf(kindOf(b), bridge) ELSE image[b]
            /\ posts' = posts /\ imgFetches' = imgFetches
            /\ tickFetches' <= tickFetches /\ refreshFetches' <= refreshFetches
            /\ Len(starts') = Len(starts)
       /\ ~SnapshotPushed => image' = image]_vars

\* All four keys show the icon of the set flag after a push of a snapshot
\* in which the player plays a liked track, shuffled and muted.
C28_Witness ==
    /\ image["b1"] = "imgs/action/pause.png"
    /\ image["b3"] = "imgs/action/like_filled.png"
    /\ image["b5"] = "imgs/action/shuffle_on.png"
    /\ image["b6"] = "imgs/action/mute.png"


\* The part of C29 that concerns the resumed call: with the credentials
\* missing it spawns nothing, writes no .env and leaves the handle alone.
NoSpawnWithoutCredentials ==
    (BackendSettingsRead /\ CredentialsMissing(credentials)) =>
        /\ procs' = procs
        /\ pythonProcess' = pythonProcess
        /\ envFile' = envFile

\* C29: a call of startPythonBackend while the credentials of the global
\* settings are missing does nothing: no process is spawned, no .env is
\* written, and a backend process that is running is left running.
C29_NoCredentialsIsNoOp ==
    [][/\ NoSpawnWithoutCredentials
       /\ \A e \in SettingsEvents(GlobalSettings) :
              (/\ PluginOnDidReceiveSettings(e)
               /\ CredentialsMissing(e.global)
               /\ backendStarts' = backendStarts + 1)
              => /\ Running' = Running
                 /\ envFile' = envFile]_vars

\* C30: at most one backend process spawned by the plugin is running at any
\* time, and while one is running the handle pythonProcess refers to it.
C30_OneBackendProcess ==
    /\ Cardinality(Running) <= 1
    /\ \A p \in Running : pythonProcess = p


\* C31: every call of the registry dial's updateImage performs exactly one
\* setFeedback once its request has ended, none before the promise settles:
\* the fetched image when a 200 response was read to its end, the error
\* placeholder otherwise; never two, also when the timeout handler and the
\* error handler of the same request both ran.
C31_OneFeedbackPerCall ==
    \A d \in Dials :
        LET c == ui[d] IN
        /\ c.settled = "none" => c.feedback = <<>>
        /\ c.settled # "none" =>
               c.feedback = <<IF c.cause = "ok" THEN Base64Image(c.url) ELSE ErrorImage>>
        /\ c.phase = "closed" => c.settled # "none"

\* The request of d1's call timed out, was destroyed and then emitted
\* 'error': both handlers ran, and one setFeedback was made.
C31_Witness ==
    /\ ui["d1"].phase = "closed"
    /\ ui["d1"].cause = "timeout"
    /\ Len(ui["d1"].feedback) = 1


\* C32: the period given to setInterval is a positive number of
\* milliseconds: the stored refreshRate times 1000 when that is a positive
\* number, and 5000 for every other stored value (undefined, zero,
\* negative, text).
C32_PeriodIsPositive ==
    [][\A h \in timers' \ timers :
           /\ period'[h] > 0
           /\ period'[h] = IF refreshRate \notin {Undefined, Text} /\ refreshRate > 0
                           THEN refreshRate * 1000 ELSE DefaultPeriod]_vars


\* What a handled settings event does to the scheduler and the backend.
Restarted ==
    /\ updateInterval' = NoTimer
    /\ timers' = timers \ {updateInterval}
    /\ starts' = Append(starts, NewStart)
    /\ pythonProcess' = NoProcess
    /\ Running' = Running \ {pythonProcess}
    /\ backendStarts' = backendStarts + 1

\* C33: a settings event whose global section equals the global
\* section of the event handled before changes nothing, neither scheduler
\* nor backend process; the first event and every event with a different
\* global section restart both.
C33_EqualGlobalChangesNothing ==
    [][\A e \in DedupEvents :
           PluginOnDidReceiveSettings(e) =>
               IF lastSettings # NoSettings /\ lastSettings[1].global = e.global
               THEN UNCHANGED <<starts, timers, updateInterval, period,
                                procs, pythonProcess, backendStarts>>
               ELSE Restarted]_vars

\* What the handler does keep: a settings event whose global section
\* serialises to the same JSON text (same values, keys in the same order) as
\* that of the event handled before changes nothing; the first event and
\* every event whose global section serialises to another text restart
\* scheduler and backend.
SameTextChangesNothing ==
    [][\A e \in DedupEvents :
           PluginOnDidReceiveSettings(e) =>
               IF lastSettings # NoSettings /\ Stringify(lastSettings[1]) = Stringify(e)
               THEN UNCHANGED vars
               ELSE Restarted]_vars


\* The identifiers the dial map holds.
DialIds == {dialActions[i].id : i \in 1..Len(dialActions)}

\* A step in which updateAllDials runs: the end of a tick's or a start's
\* states fetch, or the end of a tap's dispatch.
FanOutStep ==
    \/ \E o \in StatesOutcomes : TickStatesFetched(o)
    \/ \E i \in 1..MaxStarts, o \in StatesOutcomes : StartStatesFetched(i, o)
    \/ \E i \in 1..Len(posts), o \in PostOutcomes : posts[i].src = "tap" /\ PostEnds(i, o)

\* C34: the dial map holds exactly the dials that appeared and have not
\* disappeared since, each once, and the fan-out of a tick or of a touch tap
\* sends no image request for a dial that has disappeared.
C34_NoFetchAfterDisappear ==
    /\ [](DialIds = visible \cap Dials /\ Len(dialActions) = Cardinality(DialIds))
    /\ [][FanOutStep =>
            \A d \in Dials \ visible, u \in Urls \ {""} :
                imgFetches'[<<d, u>>] = imgFetches[<<d, u>>]]_vars

\* Dial d1 was shown and has disappeared, its requests have ended, and the
\* timer runs; d2 is visible with the request of its appearance and the
\* request of a fan-out in flight.
C34_Witness ==
    /\ "d1" \notin visible /\ shown["d1"] # NoImage
    /\ imgFetches[<<"d1", "a">>] = 0
    /\ "d2" \in visible /\ imgFetches[<<"d2", "a">>] >= 2
    /\ timers # {}


\* The active intervals that refresh dial d.
IntervalsOf(d) == {t \in pdTimers : t.dial = d}

\* C35: in the variant with one interval per URL, once no onWillAppear is
\* suspended, a hidden dial has no active interval and a visible dial has
\* exactly one, which fetches the source the dial is configured with.
C35_OneIntervalPerVisibleDial ==
    pdAppearing = <<>> =>
        \A d \in Dials :
            IF d \in pdVisible
            THEN \E t \in pdTimers : IntervalsOf(d) = {t} /\ t.url = pdUrl[d]
            ELSE IntervalsOf(d) = {}

\* C36: in the variant with a set of intervals, hiding or reconfiguring one
\* dial cancels no interval of another dial that is visible.
C36_OtherDialsKeepTheirInterval ==
    [][\A d \in Dials :
           (SetDialOnWillDisappear(d) \/ \E u \in {"a", "b"} : SetDialOnDidReceiveSettings(d, u))
           => \A o \in pdVisible \ {d} :
                  {t \in pdTimers' : t.dial = o} = IntervalsOf(o)]_vars


\* C37: a press of the volume-set key dispatches the command 'volumeset'
\* with the volume the key is configured with, whatever it is in 0..100,
\* and with 50 when no volume is configured.
C37_PressCarriesConfiguredVolume ==
    [][ButtonOnKeyDown("b7") =>
           /\ Len(posts') = Len(posts) + 1
           /\ posts'[Len(posts')].cmd = "volumeset"
           /\ posts'[Len(posts')].value =
                  (IF volumeSetting = Undefined THEN DefaultVolume ELSE volumeSetting)]_vars

\* What holds of the press: it carries this.volume, which is the configured
\* volume unless that is 0.
PressCarriesVolumeOr50 ==
    [][ButtonOnKeyDown("b7") =>
           /\ Len(posts') = Len(posts) + 1
           /\ posts'[Len(posts')].cmd = "volumeset"
           /\ posts'[Len(posts')].value =
                  (IF volumeSetting \in {Undefined, 0} THEN DefaultVolume ELSE volumeSetting)]_vars


\* C38: once the promise of a downloadImage call is settled, resolved or
\* rejected, by a timeout too, no further attempt is issued for that call:
\* whenever the attempts of the call grow, its promise is still pending.
C38_NoAttemptAfterSettled ==
    [][dl'.attempts > dl.attempts => dl'.settled = "none"]_vars

====
